---- MODULE Spec2Model ----
(***************************************************************************)
(* Resumable chunked upload pipeline of ValvX:                             *)
(*   - the Transfer Queue Manager  (valvx-web/composables/useFileUpload.ts)*)
(*   - the Chunked Transfer Endpoint (valvx-api/upload/handler.go)         *)
(*   - the Completion Registrar    (valvx-api/upload/handler.go)           *)
(*   - the Conversion Bridge       (SpeckleBridge)                         *)
(* Sizes and offsets are counted in MB.                                    *)
(***************************************************************************)
EXTENDS Integers, Sequences, FiniteSets, TLC

\* ---------------------------------------------------------------- constants
CHUNK_SIZE == 5
MAX_PARALLEL_UPLOADS == 3

\* ------------------------------------------------------------------- bounds
\* files ever enqueued in one batch (ids 1..MaxFiles)
MaxFiles == 4
\* how far the activeUploads counter may drift from the ceiling before the
\* model stops repeating a pause or a resume
MaxDrift == 1
\* sessions created at the endpoint
MaxUploads == 1
\* PATCH requests sent to the endpoint
MaxRequests == 2
\* completion events delivered to the registrar (and direct registrar calls)
MaxEvents == 2
\* registrations handed on towards the bridge
MaxImports == 1
MaxReuploads == 2
\* files enqueued, sessions created and chunks sent in one client transfer run
MaxTransfers == 1
MaxSessions == 2
MaxSends == 4
\* progress samples kept, and seconds the clock runs, in one metering run
MaxSamples == 3
MaxTime == 6
\* files of a batch that is never cancelled
MaxBatch == 5

NoUrl == 0
NoError == ""
FileSizes == {5}

VARIABLES
    \* Queue Manager (useFileUpload.ts)
    files,          \* ref<UploadFile[]>: sequence of records
    activeUploads,  \* ref(0)
    tusInstances,   \* Map<string, tus.Upload>: id -> instance
    nextId,         \* ids handed out by generateId so far
    created,        \* pairs <<item id, upload id>>: the item's tus.Upload
                    \* created that upload at the endpoint
    speedSamples,   \* { time, bytes }[]: the progress samples
    now,            \* Date.now(), in seconds
    \* Chunked Transfer Endpoint (handler.go, HandleTUS)
    upload_state,   \* table upload_state: upload id -> row
    nextUpload,     \* upload ids handed out by uuid.New so far
    inflight,       \* PATCH requests received and not yet answered
    responses,      \* the answers given to PATCH requests
    reported,       \* upload id -> the Upload-Offset the endpoint answered last
    sent,           \* upload id -> bytes accepted so far in contiguous order
    nextRid,        \* PATCH requests numbered so far
    answers,        \* the answers given to POST, HEAD and DELETE requests
    \* completion channel between endpoint and registrar
    CompleteUploads,\* events sent on the channel and not yet received
    completions,    \* upload id -> completion events emitted so far
    \* Completion Registrar (handler.go, onUploadComplete / OnUploadComplete)
    events,         \* upload id -> the HookEvent of its completion
    objects,        \* upload ids whose bytes have landed in object storage
    hooks,          \* registrar runs: sequence of records, one per run
    arca_file,          \* table arca_file
    arca_file_version,  \* table arca_file_version
    arca_folder_file,   \* table arca_folder_file
    nextUuid,       \* uuids handed out by uuid.New to the registrar so far
    imports,        \* bridge runs started by the registrar: sequence of records
    \* Conversion Bridge (SpeckleBridge)
    arca_speckle_mapping    \* table arca_speckle_mapping: file_version_id -> row

meterVars == <<speedSamples, now>>
queueVars == <<files, activeUploads, tusInstances, nextId, created, meterVars>>
endpointVars == <<upload_state, nextUpload, inflight, responses, reported,
                  sent, nextRid, answers>>
channelVars == <<CompleteUploads, completions>>
catalogVars == <<arca_file, arca_file_version, arca_folder_file>>
registrarVars == <<events, objects, hooks, catalogVars, nextUuid>>
bridgeVars == <<imports, arca_speckle_mapping>>
serverVars == <<registrarVars, bridgeVars>>

vars == <<queueVars, endpointVars, channelVars, serverVars>>

\* ------------------------------------------------------------ Queue Manager
Put(m, k, v) == [x \in (DOMAIN m) \cup {k} |-> IF x = k THEN v ELSE m[x]]
Del(m, k) == [x \in (DOMAIN m) \ {k} |-> m[x]]
EmptyMap == [x \in {} |-> 0]

Ids(fs) == {fs[i].id : i \in 1..Len(fs)}
IndexOf(fs, id) == CHOOSE i \in 1..Len(fs) : fs[i].id = id
Percent(b, t) == IF t > 0 THEN (b * 100) \div t ELSE 0

\* the raw files handed to addFiles: their name (stem and the part after the
\* last dot), their MIME type as the browser reports it, the folder chosen
UploadName == [stem |-> "model", dot |-> "IFC"]
UploadType == ""
UploadFolder == "f1"

\* getFileExt: the part after the last dot, lower-cased; "" without a dot
getFileExt(name) ==
    IF name.dot = "IFC" THEN "ifc" ELSE IF name.dot = "IFCZIP" THEN "ifczip" ELSE name.dot

\* addFiles: the UploadFile built for one raw file
NewUploadFile(id, size) ==
    [id |-> id, size |-> size, status |-> "queued", progress |-> 0,
     bytesUploaded |-> 0, bytesTotal |-> size, error |-> NoError,
     tusUrl |-> NoUrl,
     name |-> UploadName, type |-> UploadType, ext |-> getFileExt(UploadName),
     folderId |-> UploadFolder]

\* startUpload: the metadata option of new tus.Upload, sent as
\* Upload-Metadata with the POST that creates the upload
UploadMetadata(uploadFile) ==
    [key \in {"filename", "filetype", "folderId", "ext"} |->
        CASE key = "filename" -> uploadFile.name.stem
          [] key = "filetype" -> IF uploadFile.type # "" THEN uploadFile.type
                                 ELSE "application/octet-stream"
          [] key = "folderId" -> uploadFile.folderId
          [] OTHER -> uploadFile.ext]

\* metadata[key] on a Go map: "" for a key that is not there
Lookup(metadata, key) == IF key \in DOMAIN metadata THEN metadata[key] ELSE ""

\* onUploadComplete: the creator written on the FileVersion
CreatorOf(metadata) ==
    IF Lookup(metadata, "creatorId") # "" THEN Lookup(metadata, "creatorId")
    ELSE Lookup(metadata, "creator_id")

\* new tus.Upload(...) followed by start(): no upload URL yet, nothing sent,
\* not aborted; phase "start" until the upload was created (or, with a URL,
\* its offset queried), "upload" while chunks are being sent
NewTus == [url |-> NoUrl, offset |-> 0, aborted |-> FALSE, phase |-> "start"]

QState == [files |-> files, activeUploads |-> activeUploads,
           tusInstances |-> tusInstances]

SetQ(q) ==
    /\ files' = q.files
    /\ activeUploads' = q.activeUploads
    /\ tusInstances' = q.tusInstances

\* (mutant) a scheduler that takes the queued item added last
LastQueued(fs) ==
    IF \E i \in 1..Len(fs) : fs[i].status = "queued"
    THEN CHOOSE i \in 1..Len(fs) :
            /\ fs[i].status = "queued"
            /\ \A j \in (i + 1)..Len(fs) : fs[j].status # "queued"
    ELSE 0

\* files.value.find((f) => f.status === 'queued'): index of the first, or 0
FirstQueued(fs) ==
    IF \E i \in 1..Len(fs) : fs[i].status = "queued"
    THEN CHOOSE i \in 1..Len(fs) :
            /\ fs[i].status = "queued"
            /\ \A j \in 1..(i - 1) : fs[j].status # "queued"
    ELSE 0

startUpload(q, i) ==
    [files |-> [q.files EXCEPT ![i].status = "uploading"],
     activeUploads |-> q.activeUploads + 1,
     tusInstances |-> Put(q.tusInstances, q.files[i].id, NewTus)]

RECURSIVE processQueue(_)
processQueue(q) ==
    IF q.activeUploads < MAX_PARALLEL_UPLOADS /\ FirstQueued(q.files) # 0
    THEN processQueue(startUpload(q, FirstQueued(q.files)))
    ELSE q

RECURSIVE NewFiles(_, _)
NewFiles(first, sizes) ==
    IF sizes = <<>> THEN <<>>
    ELSE <<NewUploadFile(first, Head(sizes))>> \o NewFiles(first + 1, Tail(sizes))

addFiles(q, first, sizes) ==
    processQueue([q EXCEPT !.files = q.files \o NewFiles(first, sizes)])

\* (mutant) a pause that frees the slot and forgets to call processQueue
pauseUploadNoPromote(q, fileId) ==
    IF fileId \in DOMAIN q.tusInstances /\ fileId \in Ids(q.files)
    THEN [files |-> [q.files EXCEPT ![IndexOf(q.files, fileId)].status = "paused"],
          activeUploads |-> q.activeUploads - 1,
          tusInstances |-> [q.tusInstances EXCEPT ![fileId].aborted = TRUE]]
    ELSE q

pauseUpload(q, fileId) ==
    IF fileId \in DOMAIN q.tusInstances /\ fileId \in Ids(q.files)
    THEN processQueue(
           [files |-> [q.files EXCEPT ![IndexOf(q.files, fileId)].status = "paused"],
            activeUploads |-> q.activeUploads - 1,
            tusInstances |-> [q.tusInstances EXCEPT ![fileId].aborted = TRUE]])
    ELSE q

resumeUpload(q, fileId) ==
    IF fileId \in DOMAIN q.tusInstances /\ fileId \in Ids(q.files)
    THEN [files |-> [q.files EXCEPT ![IndexOf(q.files, fileId)].status = "uploading"],
          activeUploads |-> q.activeUploads + 1,
          tusInstances |-> [q.tusInstances EXCEPT ![fileId].aborted = FALSE,
                                                  ![fileId].phase = "start"]]
    ELSE q

retryUpload(q, fileId) ==
    IF fileId \in Ids(q.files) /\ q.files[IndexOf(q.files, fileId)].status = "error"
    THEN processQueue(
           [files |-> [q.files EXCEPT ![IndexOf(q.files, fileId)] =
                          [@ EXCEPT !.status = "queued", !.error = NoError,
                                    !.progress = 0, !.bytesUploaded = 0]],
            activeUploads |-> q.activeUploads,
            tusInstances |-> Del(q.tusInstances, fileId)])
    ELSE q

removeUpload(q, fileId) ==
    LET wasUploading ==
            /\ fileId \in Ids(q.files)
            /\ q.files[IndexOf(q.files, fileId)].status = "uploading"
    IN processQueue(
         [files |-> SelectSeq(q.files, LAMBDA f : f.id # fileId),
          activeUploads |-> IF wasUploading THEN q.activeUploads - 1
                            ELSE q.activeUploads,
          tusInstances |-> Del(q.tusInstances, fileId)])

clearCompleted(q) ==
    [q EXCEPT !.files = SelectSeq(q.files, LAMBDA f : f.status # "complete")]

\* (mutant) a cancelAll that sets every item of the batch to paused
cancelAllItems(q) ==
    [files |-> [i \in 1..Len(q.files) |-> [q.files[i] EXCEPT !.status = "paused"]],
     activeUploads |-> 0,
     tusInstances |-> EmptyMap]

cancelAll(q) ==
    [files |-> [i \in 1..Len(q.files) |->
                  IF q.files[i].status \in {"uploading", "queued"}
                  THEN [q.files[i] EXCEPT !.status = "paused"]
                  ELSE q.files[i]],
     activeUploads |-> 0,
     tusInstances |-> EmptyMap]

RECURSIVE SumUploaded(_)
SumUploaded(fs) ==
    IF fs = <<>> THEN 0 ELSE Head(fs).bytesUploaded + SumUploaded(Tail(fs))

RECURSIVE SumTotal(_)
SumTotal(fs) == IF fs = <<>> THEN 0 ELSE Head(fs).bytesTotal + SumTotal(Tail(fs))

\* the window of calculateSpeed: 5000 ms, in seconds
SPEED_WINDOW == 5

\* speedSamples.filter((s) => now - s.time < 5000)
InWindow(samples, t) == SelectSeq(samples, LAMBDA x : t - x.time < SPEED_WINDOW)

\* calculateSpeed at time t: bytes per second as the fraction num / den
\* (0 / 1 with fewer than two samples in the window or no time between them)
calculateSpeed(samples, t) ==
    LET w == InWindow(samples, t)
        oldest == w[1]
        newest == w[Len(w)]
    IN IF Len(w) < 2 THEN [num |-> 0, den |-> 1]
       ELSE IF newest.time - oldest.time <= 0 THEN [num |-> 0, den |-> 1]
       ELSE [num |-> newest.bytes - oldest.bytes, den |-> newest.time - oldest.time]

\* batchState at time t: totals, speed, and eta = remaining / speed when the
\* speed is positive, else 0
batchState(q, samples, t) ==
    LET total == SumTotal(q.files)
        uploaded == SumUploaded(q.files)
        speed == calculateSpeed(samples, t)
    IN [totalSize |-> total, uploadedSize |-> uploaded, speed |-> speed,
        eta |-> IF speed.num > 0 THEN ((total - uploaded) * speed.den) \div speed.num
                ELSE 0]

\* onProgress: speedSamples.push({ time: Date.now(), bytes: sum of bytesUploaded })
Sampled(q) ==
    speedSamples' = Append(speedSamples, [time |-> now, bytes |-> SumUploaded(q.files)])

\* the callbacks startUpload hands to tus.Upload; they close over the item
onProgress(q, fileId, bytesUploaded, bytesTotal) ==
    IF fileId \in Ids(q.files)
    THEN [q EXCEPT !.files[IndexOf(q.files, fileId)] =
            [@ EXCEPT !.bytesUploaded = bytesUploaded, !.bytesTotal = bytesTotal,
                      !.progress = Percent(bytesUploaded, bytesTotal)]]
    ELSE q

\* (mutant) a success callback that leaves the finished tus.Upload in the map
onSuccessKeepsInstance(q, fileId) ==
    processQueue(
      [files |-> IF fileId \in Ids(q.files)
                 THEN [q.files EXCEPT ![IndexOf(q.files, fileId)] =
                         [@ EXCEPT !.status = "complete", !.progress = 100,
                                   !.tusUrl = q.tusInstances[fileId].url]]
                 ELSE q.files,
       activeUploads |-> q.activeUploads - 1,
       tusInstances |-> q.tusInstances])

onSuccess(q, fileId) ==
    processQueue(
      [files |-> IF fileId \in Ids(q.files)
                 THEN [q.files EXCEPT ![IndexOf(q.files, fileId)] =
                         [@ EXCEPT !.status = "complete", !.progress = 100,
                                   !.tusUrl = q.tusInstances[fileId].url]]
                 ELSE q.files,
       activeUploads |-> q.activeUploads - 1,
       tusInstances |-> Del(q.tusInstances, fileId)])

\* (mutant) an error callback that marks the item failed and starts it over
\* without keeping the message
onErrorReset(q, fileId, msg) ==
    processQueue(
      [files |-> IF fileId \in Ids(q.files)
                 THEN [q.files EXCEPT ![IndexOf(q.files, fileId)] =
                         [@ EXCEPT !.status = "error", !.bytesUploaded = 0]]
                 ELSE q.files,
       activeUploads |-> q.activeUploads - 1,
       tusInstances |-> Del(q.tusInstances, fileId)])

onError(q, fileId, msg) ==
    processQueue(
      [files |-> IF fileId \in Ids(q.files)
                 THEN [q.files EXCEPT ![IndexOf(q.files, fileId)] =
                         [@ EXCEPT !.status = "error", !.error = msg]]
                 ELSE q.files,
       activeUploads |-> q.activeUploads - 1,
       tusInstances |-> Del(q.tusInstances, fileId)])

\* a tus.Upload delivers callbacks only while it is started and not aborted
Running(fileId) ==
    fileId \in DOMAIN tusInstances /\ ~tusInstances[fileId].aborted

\* ------------------------------------------------ Chunked Transfer Endpoint
\* Config.ChunkSize (VALVX_API_TUS_CHUNK_SIZE, 5 MB by default)
ConfigChunkSize == 5

NoHeader == 0 - 1

\* handleCreate: the row it inserts into upload_state
NewUploadState(uploadLength) ==
    [total_size |-> uploadLength, uploaded_size |-> 0, status |-> "uploading"]

\* handleCreate: 201, Location and Upload-Offset: 0, whatever the insert did
CreateResponse(uploadID) ==
    [op |-> "POST", id |-> uploadID, code |-> 201, offset |-> 0,
     length |-> NoHeader]

\* handlePatch: a path without an upload id is a 400; otherwise 204 with
\* Upload-Offset set to the chunk size (Config.ChunkSize for an empty body)
PatchResponse(uploadID, declaredOffset, contentLength) ==
    IF uploadID = NoUrl
    THEN [op |-> "PATCH", id |-> uploadID, code |-> 400, offset |-> NoHeader,
          length |-> NoHeader]
    ELSE [op |-> "PATCH", id |-> uploadID, code |-> 204,
          offset |-> IF contentLength <= 0 THEN ConfigChunkSize ELSE contentLength,
          length |-> NoHeader]

\* handleHead: 200 with Upload-Offset: 0 and Upload-Length: 0
HeadResponse(uploadID) ==
    [op |-> "HEAD", id |-> uploadID, code |-> 200, offset |-> 0, length |-> 0]

\* handleDelete: 204
DeleteResponse(uploadID) ==
    [op |-> "DELETE", id |-> uploadID, code |-> 204, offset |-> NoHeader,
     length |-> NoHeader]

\* the session's durable offset: upload_state.uploaded_size
DurableOffset(uploadID) ==
    IF uploadID \in DOMAIN upload_state THEN upload_state[uploadID].uploaded_size
    ELSE 0

Issued == 1..(nextUpload - 1)

\* an answer as the client gets it, with what the request declared
\* (Upload-Length of a POST) and what upload_state held for the upload when
\* the handler returned
Answered(resp, declaredLength, table) ==
    [op |-> resp.op, id |-> resp.id, code |-> resp.code, offset |-> resp.offset,
     length |-> resp.length, declared |-> declaredLength,
     stored |-> resp.id \in DOMAIN table,
     durable |-> IF resp.id \in DOMAIN table THEN table[resp.id].uploaded_size
                 ELSE NoHeader,
     total |-> IF resp.id \in DOMAIN table THEN table[resp.id].total_size
               ELSE NoHeader,
     patched |-> {r.rid : r \in {x \in responses : x.id = resp.id}}]

\* what handleCreate does to the endpoint's state; dbOk: the INSERT succeeded
DoCreate(uploadLength, dbOk) ==
    /\ upload_state' = IF dbOk
                       THEN Put(upload_state, nextUpload, NewUploadState(uploadLength))
                       ELSE upload_state
    /\ sent' = Put(sent, nextUpload, 0)
    /\ completions' = Put(completions, nextUpload, 0)
    /\ nextUpload' = nextUpload + 1
    /\ reported' = Put(reported, nextUpload, CreateResponse(nextUpload).offset)
    /\ answers' = answers \cup
          {Answered(CreateResponse(nextUpload), uploadLength, upload_state')}

\* what handlePatch does for request r: it answers, and touches neither
\* upload_state nor the completion channel
DoPatch(r, others) ==
    LET resp == PatchResponse(r.id, r.declared, r.len)
        accepted == resp.code = 204 /\ r.id \in DOMAIN sent
    IN /\ reported' = IF accepted THEN [reported EXCEPT ![r.id] = resp.offset]
                      ELSE reported
       /\ responses' = responses \cup
            {[rid |-> r.rid, id |-> r.id, declared |-> r.declared, len |-> r.len,
              code |-> resp.code, offset |-> resp.offset,
              durable |-> DurableOffset(r.id),
              contig |-> IF r.id \in DOMAIN sent THEN sent[r.id] ELSE 0,
              overlap |-> others]}
       /\ sent' = IF accepted /\ r.declared = sent[r.id]
                  THEN [sent EXCEPT ![r.id] = @ + r.len]
                  ELSE sent
       /\ UNCHANGED <<upload_state, nextUpload, answers, channelVars>>

Lengths == {5, 10}
DeclaredOffsets == {0, 5}
ChunkLens == {0, 5}

HandleCreate ==
    \E uploadLength \in Lengths, dbOk \in BOOLEAN :
        /\ nextUpload <= MaxUploads
        /\ DoCreate(uploadLength, dbOk)
        /\ UNCHANGED <<queueVars, inflight, responses, nextRid, CompleteUploads,
                       serverVars>>

\* a PATCH request arrives
SendChunk ==
    \E id \in Issued, declared \in DeclaredOffsets, len \in ChunkLens :
        /\ nextRid <= MaxRequests
        /\ inflight' = inflight \cup
              {[rid |-> nextRid, id |-> id, declared |-> declared, len |-> len]}
        /\ nextRid' = nextRid + 1
        /\ UNCHANGED <<queueVars, upload_state, nextUpload, responses, reported,
                       sent, answers, channelVars, serverVars>>

HandlePatch ==
    \E r \in inflight :
        /\ DoPatch(r, {o.rid : o \in inflight \ {r}})
        /\ inflight' = inflight \ {r}
        /\ UNCHANGED <<queueVars, nextRid, serverVars>>

\* what handleHead does: it answers, and touches nothing
DoHead(uploadID) ==
    /\ reported' = [reported EXCEPT ![uploadID] = HeadResponse(uploadID).offset]
    /\ answers' = answers \cup
          {Answered(HeadResponse(uploadID), NoHeader, upload_state)}
    /\ UNCHANGED <<upload_state, nextUpload, sent, channelVars>>

\* what handleDelete does: it answers, and touches nothing
DoDelete(uploadID) ==
    /\ answers' = answers \cup
          {Answered(DeleteResponse(uploadID), NoHeader, upload_state)}
    /\ UNCHANGED <<upload_state, nextUpload, reported, sent, channelVars>>

HandleHead ==
    \E id \in Issued :
        /\ DoHead(id)
        /\ UNCHANGED <<queueVars, inflight, responses, nextRid, serverVars>>

HandleDelete ==
    \E id \in Issued :
        /\ DoDelete(id)
        /\ UNCHANGED <<queueVars, inflight, responses, nextRid, serverVars>>

NextEndpoint ==
    \/ HandleCreate
    \/ SendChunk
    \/ HandlePatch
    \/ HandleHead
    \/ HandleDelete

Init ==
    /\ files = <<>>
    /\ activeUploads = 0
    /\ tusInstances = EmptyMap
    /\ nextId = 1
    /\ created = {}
    /\ speedSamples = <<>>
    /\ now = 0
    /\ upload_state = EmptyMap
    /\ nextUpload = 1
    /\ inflight = {}
    /\ responses = {}
    /\ reported = EmptyMap
    /\ sent = EmptyMap
    /\ nextRid = 1
    /\ answers = {}
    /\ CompleteUploads = <<>>
    /\ completions = EmptyMap
    /\ events = EmptyMap
    /\ objects = {}
    /\ hooks = <<>>
    /\ arca_file = {}
    /\ arca_file_version = {}
    /\ arca_folder_file = {}
    /\ nextUuid = 1
    /\ imports = <<>>
    /\ arca_speckle_mapping = EmptyMap

\* ---------------------------------------------- Queue Manager: the actions
FileOf(id) == files[IndexOf(files, id)]

Enqueue(maxFiles, fileSizes) ==
    \E n \in 1..(maxFiles + 1 - nextId) :
      \E sizes \in [1..n -> fileSizes] :
        /\ SetQ(addFiles(QState, nextId, sizes))
        /\ nextId' = nextId + n
        /\ UNCHANGED <<meterVars, created, endpointVars, channelVars, serverVars>>

AddFiles == Enqueue(MaxFiles, FileSizes)

Statuses == {"queued", "uploading", "paused", "processing", "complete", "error"}

\* pause(id) / resume(id) called for an item whose status is in `from`
PauseWhere(from) ==
    \E id \in Ids(files) :
        /\ FileOf(id).status \in from
        /\ activeUploads > 0 - MaxDrift
        /\ SetQ(pauseUpload(QState, id))
        /\ UNCHANGED <<meterVars, nextId, created, endpointVars, channelVars, serverVars>>

ResumeWhere(from) ==
    \E id \in Ids(files) :
        /\ FileOf(id).status \in from
        /\ activeUploads < MAX_PARALLEL_UPLOADS + MaxDrift
        /\ SetQ(resumeUpload(QState, id))
        /\ UNCHANGED <<meterVars, nextId, created, endpointVars, channelVars, serverVars>>

PauseUpload == PauseWhere(Statuses)

ResumeUpload == ResumeWhere(Statuses)

RetryUpload ==
    \E id \in Ids(files) :
        /\ SetQ(retryUpload(QState, id))
        /\ UNCHANGED <<meterVars, nextId, created, endpointVars, channelVars, serverVars>>

RemoveUpload ==
    \E id \in Ids(files) :
        /\ SetQ(removeUpload(QState, id))
        /\ UNCHANGED <<meterVars, nextId, created, endpointVars, channelVars, serverVars>>

ClearCompleted ==
    /\ SetQ(clearCompleted(QState))
    /\ UNCHANGED <<meterVars, nextId, created, endpointVars, channelVars, serverVars>>

CancelAll ==
    /\ SetQ(cancelAll(QState))
    /\ UNCHANGED <<meterVars, nextId, created, endpointVars, channelVars, serverVars>>

\* the running transfer reports success or failure
TusSuccess ==
    \E id \in DOMAIN tusInstances :
        /\ Running(id)
        /\ SetQ(onSuccess(QState, id))
        /\ UNCHANGED <<meterVars, nextId, created, endpointVars, channelVars, serverVars>>

TusError ==
    \E id \in DOMAIN tusInstances :
        /\ Running(id)
        /\ SetQ(onError(QState, id, "upload failed"))
        /\ UNCHANGED <<meterVars, nextId, created, endpointVars, channelVars, serverVars>>

NextQueue ==
    \/ AddFiles
    \/ PauseUpload
    \/ ResumeUpload
    \/ RetryUpload
    \/ RemoveUpload
    \/ ClearCompleted
    \/ CancelAll
    \/ TusSuccess
    \/ TusError

SpecQueue == Init /\ [][NextQueue]_vars

SpecEndpoint == Init /\ [][NextEndpoint]_vars

\* ------------------------------------- one transfer, client against endpoint
TransferSizes == {5, 12}

AddTransfer == Enqueue(MaxTransfers, TransferSizes)

\* the user pauses a running transfer and resumes a paused one
PauseTransfer == PauseWhere({"uploading"})

ResumeTransfer == ResumeWhere({"paused"})

\* the Queue Manager as the upload panel drives it: the panel offers Pause
\* on an uploading item, Resume on a paused one and Retry on a failed one
NextPanel ==
    \/ AddFiles
    \/ PauseTransfer
    \/ ResumeTransfer
    \/ RetryUpload
    \/ RemoveUpload
    \/ ClearCompleted
    \/ CancelAll
    \/ TusSuccess
    \/ TusError

SpecPanel == Init /\ [][NextPanel]_vars

\* the panel with a batch larger than the ceiling and without Cancel all
AddBatch == Enqueue(MaxBatch, FileSizes)

NextSteady ==
    \/ AddBatch
    \/ PauseTransfer
    \/ ResumeTransfer
    \/ RetryUpload
    \/ RemoveUpload
    \/ ClearCompleted
    \/ TusSuccess
    \/ TusError

\* a tus.Upload that was started and is not aborted ends: it calls onSuccess,
\* or onError once its retryDelays are used up
SpecSteady == Init /\ [][NextSteady]_vars /\ WF_vars(TusSuccess \/ TusError)

Min(a, b) == IF a < b THEN a ELSE b

\* tus.Upload after start(): without an upload URL it creates the upload
\* (POST) and begins at offset 0
TusCreate ==
    \E id \in DOMAIN tusInstances, dbOk \in BOOLEAN :
        /\ Running(id)
        /\ tusInstances[id].phase = "start"
        /\ tusInstances[id].url = NoUrl
        /\ nextUpload <= MaxSessions
        /\ DoCreate(FileOf(id).size, dbOk)
        /\ tusInstances' = [tusInstances EXCEPT
              ![id] = [@ EXCEPT !.url = nextUpload,
                                !.offset = CreateResponse(nextUpload).offset,
                                !.phase = "upload"]]
        /\ created' = created \cup {<<id, nextUpload>>}
        /\ UNCHANGED <<files, activeUploads, nextId, meterVars, inflight, responses, nextRid,
                       CompleteUploads, serverVars>>

\* tus.Upload after start() with an upload URL: it asks the endpoint for the
\* offset (HEAD); an offset equal to the reported length counts as finished
\* (progress and success are emitted), otherwise sending goes on from it
TusResume ==
    \E id \in DOMAIN tusInstances :
        LET url == tusInstances[id].url
            resp == HeadResponse(url)
            q1 == [QState EXCEPT !.tusInstances[id].offset = resp.offset,
                                 !.tusInstances[id].phase = "upload"]
        IN /\ Running(id)
           /\ tusInstances[id].phase = "start"
           /\ url # NoUrl
           /\ DoHead(url)
           /\ IF resp.offset = resp.length
              THEN /\ SetQ(onSuccess(onProgress(q1, id, resp.length, resp.length), id))
                   /\ Sampled(onProgress(q1, id, resp.length, resp.length))
              ELSE /\ SetQ(q1)
                   /\ UNCHANGED speedSamples
           /\ UNCHANGED <<now, nextId, created, inflight, responses, nextRid, serverVars>>

\* tus.Upload sends the next chunk (PATCH at its offset, at most CHUNK_SIZE
\* bytes), takes the new offset from the answer, reports progress, and
\* reports success when the offset has reached the file size
TusPatch ==
    \E id \in DOMAIN tusInstances :
        LET inst == tusInstances[id]
            size == FileOf(id).size
            len == Min(CHUNK_SIZE, size - inst.offset)
            r == [rid |-> nextRid, id |-> inst.url, declared |-> inst.offset,
                  len |-> len]
            resp == PatchResponse(r.id, r.declared, r.len)
            q1 == onProgress([QState EXCEPT !.tusInstances[id].offset = resp.offset],
                             id, resp.offset, size)
        IN /\ Running(id)
           /\ inst.phase = "upload"
           /\ len > 0
           /\ nextRid <= MaxSends
           /\ DoPatch(r, {})
           /\ nextRid' = nextRid + 1
           /\ IF resp.offset = size THEN SetQ(onSuccess(q1, id)) ELSE SetQ(q1)
           /\ Sampled(q1)
           /\ UNCHANGED <<now, nextId, created, inflight, serverVars>>

NextTransfer ==
    \/ AddTransfer
    \/ TusCreate
    \/ TusResume
    \/ TusPatch
    \/ TusError
    \/ PauseTransfer
    \/ ResumeTransfer
    \/ RetryUpload

SpecTransfer == Init /\ [][NextTransfer]_vars

\* tus.Upload reports the bytes sent so far of a running transfer
ProgressSteps == {5, 10}

TusProgress ==
    \E id \in DOMAIN tusInstances, bytes \in ProgressSteps :
        LET q1 == onProgress(QState, id, bytes, FileOf(id).size) IN
        /\ Running(id)
        /\ bytes > FileOf(id).bytesUploaded
        /\ bytes <= FileOf(id).size
        /\ Len(speedSamples) < MaxSamples
        /\ SetQ(q1)
        /\ Sampled(q1)
        /\ UNCHANGED <<now, nextId, created, endpointVars, channelVars, serverVars>>

\* a second passes
Tick ==
    /\ now < MaxTime
    /\ now' = now + 1
    /\ UNCHANGED <<files, activeUploads, tusInstances, nextId, created, speedSamples,
                   endpointVars, channelVars, serverVars>>

\* the panel reads batchState: calculateSpeed drops the samples that have
\* left the window
Render ==
    /\ speedSamples' = InWindow(speedSamples, now)
    /\ UNCHANGED <<files, activeUploads, tusInstances, nextId, created, now,
                   endpointVars, channelVars, serverVars>>

NextMeter ==
    \/ AddTransfer
    \/ TusProgress
    \/ TusError
    \/ RetryUpload
    \/ RemoveUpload
    \/ Tick
    \/ Render

SpecMeter == Init /\ [][NextMeter]_vars

\* ----------------------------------------------------- Completion Registrar
\* Upload-Metadata of a completed upload: the file name (stem and the
\* extension after its last dot, "" without one), the ext and folderId keys,
\* and the creator keys (creatorId, else creator_id)
FileNames == {[stem |-> "model", dot |-> "ifc"], [stem |-> "notes", dot |-> ""]}
MetaExts == {"txt"}
FolderIds == {"root", "f1"}
CreatorIds == {""}
EventSizes == {5}

MetaDatas ==
    [filename : FileNames, ext : MetaExts, folderId : FolderIds,
     creatorId : CreatorIds]

\* strings.ToLower on the extensions that occur
ToLower(ext) == IF ext = "IFC" THEN "ifc" ELSE IF ext = "IFCZIP" THEN "ifczip" ELSE ext

\* (mutant) a registrar that sends drawings to the bridge as well
isModelFile(ext) == ToLower(ext) \in {"ifc", "ifczip", "dwg"}

isIFCFile(ext) == ToLower(ext) \in {"ifc", "ifczip"}

\* onUploadComplete: ext from the file name, else from the metadata
HookExt(metadata) ==
    IF metadata.filename.dot # "" THEN metadata.filename.dot ELSE metadata.ext

\* (mutant) a registrar that files every upload as a further version of one
\* and the same File
NewHookSameFile(path, uploadID, metadata, size, uuid) ==
    [path |-> path, upload |-> uploadID, name |-> metadata.filename.stem,
     ext |-> HookExt(metadata), folderId |-> metadata.folderId, size |-> size,
     creatorID |-> metadata.creatorId,
     fileID |-> 1, fileVersionID |-> uuid + 1,
     pc |-> "begin", err |-> NoError,
     txFailed |-> FALSE, linkFailed |-> FALSE,
     w_file |-> {}, w_version |-> {}, w_link |-> {}]

\* one registrar run, at its BeginTx; path "hook" is onUploadComplete(event),
\* path "direct" is OnUploadComplete(ctx, uploadID, filename, ext, ...)
NewHook(path, uploadID, metadata, size, uuid) ==
    [path |-> path, upload |-> uploadID, name |-> metadata.filename.stem,
     ext |-> HookExt(metadata), folderId |-> metadata.folderId, size |-> size,
     creatorID |-> metadata.creatorId,
     fileID |-> uuid, fileVersionID |-> uuid + 1,
     pc |-> "begin", err |-> NoError,
     txFailed |-> FALSE, linkFailed |-> FALSE,
     w_file |-> {}, w_version |-> {}, w_link |-> {}]

\* (mutant) a registrar that links every file whose metadata names a folder,
\* the root included
WantsLinkToRoot(h) == h.folderId # ""

WantsLink(h) == h.folderId # "" /\ h.folderId # "root"

\* return with an error: the deferred tx.Rollback() drops what was written
Fail(h, msg) ==
    [h EXCEPT !.pc = "done", !.err = msg,
              !.w_file = {}, !.w_version = {}, !.w_link = {}]

AfterBegin(h, ok) ==
    IF ok THEN [h EXCEPT !.pc = "file"] ELSE Fail(h, "begin tx")

AfterInsertFile(h, ok) ==
    IF ok
    THEN [h EXCEPT !.pc = "version",
                   !.w_file = {[id |-> h.fileID, name |-> h.name, ext |-> h.ext]}]
    ELSE Fail(h, "insert file")

\* (mutant) a registrar that hands the version to the bridge as soon as it is
\* inserted, before the Commit
AfterInsertVersionTriggers(h, ok) ==
    IF ok THEN [h EXCEPT !.pc = "trigger"] ELSE Fail(h, "insert file version")

\* (mutant) a registrar that records the version before it knows the
\* upload's size
AfterInsertVersionUnsized(h, ok) ==
    IF ok
    THEN [h EXCEPT !.pc = IF WantsLink(h) THEN "link" ELSE "commit",
                   !.w_version = {[id |-> h.fileVersionID, number |-> 1,
                                   size |-> 0, file_id |-> h.fileID,
                                   creator_id |-> h.creatorID]}]
    ELSE Fail(h, "insert file version")

AfterInsertVersion(h, ok) ==
    IF ok
    THEN [h EXCEPT !.pc = IF WantsLink(h) THEN "link" ELSE "commit",
                   !.w_version = {[id |-> h.fileVersionID, number |-> 1,
                                   size |-> h.size, file_id |-> h.fileID,
                                   creator_id |-> h.creatorID]}]
    ELSE Fail(h, "insert file version")

\* the folder link: OnUploadComplete returns its error; onUploadComplete does
\* not look at it and goes on to Commit with the transaction failed
AfterLink(h, ok) ==
    IF ok
    THEN [h EXCEPT !.pc = "commit",
                   !.w_link = {[folder_id |-> h.folderId, file_id |-> h.fileID]}]
    ELSE IF h.path = "direct"
         THEN [Fail(h, "link folder") EXCEPT !.linkFailed = TRUE]
         ELSE [h EXCEPT !.pc = "commit", !.txFailed = TRUE, !.linkFailed = TRUE]

\* (mutant) a Commit that goes through although a statement failed, as when
\* the ignored folder-link insert ran outside the transaction
TxCommitsAnyway(h, ok) == ok

\* tx.Commit() on PostgreSQL (lib/pq): a transaction in which a statement
\* failed is rolled back and Commit returns an error
TxCommits(h, ok) == ok /\ ~h.txFailed

AfterCommit(h, ok) ==
    IF TxCommits(h, ok)
    THEN [h EXCEPT !.pc = "trigger"]
    ELSE Fail(h, "commit")

SetHook(g, h) == hooks' = [hooks EXCEPT ![g] = h]

Delivered == Len(hooks) + Len(CompleteUploads)

\* the upload library signals a completed upload on CompleteUploads: a first
\* delivery for a new upload ...
NotifyWith(maxEvents, metadatas) ==
    \E metadata \in metadatas, size \in EventSizes :
        LET u == Cardinality(objects) + 1
            e == [ID |-> u, Size |-> size, MetaData |-> metadata]
        IN /\ Delivered < maxEvents
           /\ events' = Put(events, u, e)
           /\ objects' = objects \cup {u}
           /\ CompleteUploads' = Append(CompleteUploads, e)
           /\ completions' = Put(completions, u, 1)
           /\ UNCHANGED <<queueVars, endpointVars, hooks, catalogVars, nextUuid,
                          bridgeVars>>

NotifyNew(maxEvents) == NotifyWith(maxEvents, MetaDatas)

\* ... or the same event once more
NotifyAgain(maxEvents) ==
    \E u \in DOMAIN events :
        /\ Delivered < maxEvents
        /\ CompleteUploads' = Append(CompleteUploads, events[u])
        /\ completions' = [completions EXCEPT ![u] = @ + 1]
        /\ UNCHANGED <<queueVars, endpointVars, events, objects, hooks,
                       catalogVars, nextUuid, bridgeVars>>

NotifyComplete == NotifyNew(MaxEvents) \/ NotifyAgain(MaxEvents)

\* processCompletedUploads: receive one event, go h.onUploadComplete(event)
ReceiveCompleted ==
    /\ CompleteUploads # <<>>
    /\ LET e == Head(CompleteUploads)
       IN hooks' = Append(hooks, NewHook("hook", e.ID, e.MetaData, e.Size, nextUuid))
    /\ nextUuid' = nextUuid + 2
    /\ CompleteUploads' = Tail(CompleteUploads)
    /\ UNCHANGED <<queueVars, endpointVars, completions, events, objects,
                   catalogVars, bridgeVars>>

\* a caller invokes OnUploadComplete for an upload that has landed
CallWith(maxEvents, metadatas) ==
    \E metadata \in metadatas, size \in EventSizes :
        LET u == Cardinality(objects) + 1
        IN /\ Delivered < maxEvents
           /\ objects' = objects \cup {u}
           /\ completions' = Put(completions, u, 1)
           /\ hooks' = Append(hooks, NewHook("direct", u, metadata, size, nextUuid))
           /\ nextUuid' = nextUuid + 2
           /\ UNCHANGED <<queueVars, endpointVars, CompleteUploads, events,
                          catalogVars, bridgeVars>>

CallWhere(maxEvents) == CallWith(maxEvents, MetaDatas)

CallOnUploadComplete == CallWhere(MaxEvents)

RegistrarFrame ==
    UNCHANGED <<queueVars, endpointVars, channelVars, events, objects, nextUuid>>

TxBegin ==
    \E g \in 1..Len(hooks), ok \in BOOLEAN :
        /\ hooks[g].pc = "begin"
        /\ SetHook(g, AfterBegin(hooks[g], ok))
        /\ RegistrarFrame /\ UNCHANGED <<catalogVars, bridgeVars>>

InsertFile ==
    \E g \in 1..Len(hooks), ok \in BOOLEAN :
        /\ hooks[g].pc = "file"
        /\ SetHook(g, AfterInsertFile(hooks[g], ok))
        /\ RegistrarFrame /\ UNCHANGED <<catalogVars, bridgeVars>>

InsertFileVersion ==
    \E g \in 1..Len(hooks), ok \in BOOLEAN :
        /\ hooks[g].pc = "version"
        /\ SetHook(g, AfterInsertVersion(hooks[g], ok))
        /\ RegistrarFrame /\ UNCHANGED <<catalogVars, bridgeVars>>

LinkFolder ==
    \E g \in 1..Len(hooks), ok \in BOOLEAN :
        /\ hooks[g].pc = "link"
        /\ SetHook(g, AfterLink(hooks[g], ok))
        /\ RegistrarFrame /\ UNCHANGED <<catalogVars, bridgeVars>>

\* Commit makes the transaction's rows visible at once, or none of them
TxCommit ==
    \E g \in 1..Len(hooks), ok \in BOOLEAN :
        LET h == AfterCommit(hooks[g], ok)
            done == h.pc = "trigger"
        IN /\ hooks[g].pc = "commit"
           /\ SetHook(g, h)
           /\ arca_file' = IF done THEN arca_file \cup h.w_file ELSE arca_file
           /\ arca_file_version' = IF done THEN arca_file_version \cup h.w_version
                                   ELSE arca_file_version
           /\ arca_folder_file' = IF done THEN arca_folder_file \cup h.w_link
                                  ELSE arca_folder_file
           /\ RegistrarFrame /\ UNCHANGED bridgeVars

\* a bridge run, at its first statement
NewImport(fileVersionID, objectKey) ==
    [fileVersionID |-> fileVersionID, minioObjectKey |-> objectKey,
     pc |-> "insert", modelID |-> "", err |-> NoError, remote |-> "running"]

\* after the commit: go Bridge.TriggerImport(...) for an IFC file, and return
TriggerBridge ==
    \E g \in 1..Len(hooks) :
        /\ hooks[g].pc = "trigger"
        /\ SetHook(g, [hooks[g] EXCEPT !.pc = "done"])
        /\ imports' = IF isIFCFile(hooks[g].ext)
                      THEN Append(imports,
                                  NewImport(hooks[g].fileVersionID, hooks[g].upload))
                      ELSE imports
        /\ RegistrarFrame /\ UNCHANGED <<catalogVars, arca_speckle_mapping>>

NextRegistrar ==
    \/ NotifyComplete
    \/ ReceiveCompleted
    \/ CallOnUploadComplete
    \/ TxBegin
    \/ InsertFile
    \/ InsertFileVersion
    \/ LinkFolder
    \/ TxCommit
    \/ TriggerBridge

SpecRegistrar == Init /\ [][NextRegistrar]_vars

\* uploads of a plain file to every kind of destination: a folder, the root,
\* and metadata without a folderId
Destinations == {"", "root", "f1"}

FolderMetaDatas ==
    [filename : {[stem |-> "notes", dot |-> ""]}, ext : MetaExts,
     folderId : Destinations, creatorId : CreatorIds]

NotifyForFolder == NotifyWith(MaxEvents, FolderMetaDatas)

CallForFolder == CallWith(MaxEvents, FolderMetaDatas)

NextFolders ==
    \/ NotifyForFolder
    \/ CallForFolder
    \/ ReceiveCompleted
    \/ TxBegin
    \/ InsertFile
    \/ InsertFileVersion
    \/ LinkFolder
    \/ TxCommit
    \/ TriggerBridge

SpecFolders == Init /\ [][NextFolders]_vars

\* --------------------------------------------------------- Conversion Bridge
NoModel == ""
NoObject == ""
\* what createSpeckleModel can return: an error, or the id found in the
\* response (empty when the response carries no model)
ModelIds == {"m1", NoModel}
ObjectIds == {"o1"}

\* (mutant) an upsert whose update has no WHERE on the conflicting key: every
\* mapping that exists goes back to pending
UpsertPendingAll(mapping, fv) ==
    Put([k \in DOMAIN mapping |-> [mapping[k] EXCEPT !.status = "pending"]], fv,
        [speckle_model_id |-> NoModel, speckle_object_id |-> NoObject,
         status |-> "pending", error_message |-> NoError])

\* INSERT ... ON CONFLICT (file_version_id) DO UPDATE SET status = 'pending'
UpsertPending(mapping, fv) ==
    IF fv \in DOMAIN mapping
    THEN [mapping EXCEPT ![fv].status = "pending"]
    ELSE Put(mapping, fv, [speckle_model_id |-> NoModel,
                           speckle_object_id |-> NoObject,
                           status |-> "pending", error_message |-> NoError])

\* UPDATE ... SET speckle_model_id, status = 'processing' WHERE file_version_id
SetProcessing(mapping, fv, modelID) ==
    IF fv \in DOMAIN mapping
    THEN [mapping EXCEPT ![fv].speckle_model_id = modelID,
                         ![fv].status = "processing"]
    ELSE mapping

\* UPDATE ... SET status = 'ready', speckle_object_id WHERE file_version_id
SetReady(mapping, fv, objectID) ==
    IF fv \in DOMAIN mapping
    THEN [mapping EXCEPT ![fv].status = "ready", ![fv].speckle_object_id = objectID]
    ELSE mapping

\* updateMappingError: UPDATE ... SET status = 'error', error_message
updateMappingError(mapping, fv, errMsg) ==
    IF fv \in DOMAIN mapping
    THEN [mapping EXCEPT ![fv].status = "error", ![fv].error_message = errMsg]
    ELSE mapping

\* an Exec whose error the bridge does not look at: applied, or lost
Silently(dbOk, updated) == IF dbOk THEN updated ELSE arca_speckle_mapping

SetImport(i, pc, err) ==
    imports' = [imports EXCEPT ![i].pc = pc, ![i].err = err]

BridgeFrame ==
    UNCHANGED <<queueVars, endpointVars, channelVars, registrarVars>>

\* TriggerImport: create the pending mapping, or return the error
CreateMapping ==
    \E i \in 1..Len(imports), dbOk \in BOOLEAN :
        /\ imports[i].pc = "insert"
        /\ IF dbOk
           THEN /\ arca_speckle_mapping' =
                      UpsertPending(arca_speckle_mapping, imports[i].fileVersionID)
                /\ SetImport(i, "create", NoError)
           ELSE /\ UNCHANGED arca_speckle_mapping
                /\ SetImport(i, "done", "create mapping")
        /\ BridgeFrame

\* TriggerImport: createSpeckleModel; on its error updateMappingError and return
CreateModel ==
    \E i \in 1..Len(imports), httpOk \in BOOLEAN, id \in ModelIds, dbOk \in BOOLEAN :
        /\ imports[i].pc = "create"
        /\ IF httpOk
           THEN /\ imports' = [imports EXCEPT ![i].pc = "update", ![i].modelID = id]
                /\ UNCHANGED arca_speckle_mapping
           ELSE /\ arca_speckle_mapping' = Silently(dbOk,
                      updateMappingError(arca_speckle_mapping,
                                         imports[i].fileVersionID, "create failed"))
                /\ SetImport(i, "done", "create speckle model")
        /\ BridgeFrame

\* TriggerImport: record the model id and status processing (the Exec's error
\* is not looked at), uploadFileToSpeckle, then go pollImportStatus
StartProcessing ==
    \E i \in 1..Len(imports), dbOk \in BOOLEAN, uploadOk \in BOOLEAN, errOk \in BOOLEAN :
        LET fv == imports[i].fileVersionID
            m1 == Silently(dbOk, SetProcessing(arca_speckle_mapping, fv,
                                               imports[i].modelID))
        IN /\ imports[i].pc = "update"
           /\ IF uploadOk
              THEN /\ arca_speckle_mapping' = m1
                   /\ SetImport(i, "poll", NoError)
              ELSE /\ arca_speckle_mapping' =
                        IF errOk THEN updateMappingError(m1, fv, "upload failed")
                        ELSE m1
                   /\ SetImport(i, "done", "upload to speckle")
           /\ BridgeFrame

\* the remote import of a model: running, or ended with a version that
\* references the converted object, or ended in failure without a version
RemoteStates == {"running", "succeeded", "failed"}

\* checkImportStatus: an error when the request fails; "ready" with the
\* referenced object when the model has a version; "processing" otherwise.
\* It never answers "error".
checkImportStatus(remote, httpOk) ==
    IF ~httpOk THEN [status |-> "", objectID |-> NoObject, err |-> TRUE]
    ELSE IF remote = "succeeded"
         THEN [status |-> "ready", objectID |-> "o1", err |-> FALSE]
         ELSE [status |-> "processing", objectID |-> NoObject, err |-> FALSE]

\* pollImportStatus, one tick for bridge run i: what it leaves in the mapping
\* table and in the run. An error of the check or "processing" waits for the
\* next tick, "ready" records the object and ends the loop, "error" records
\* the failure and ends the loop.
Polled(i, httpOk, dbOk) ==
    LET c == checkImportStatus(imports[i].remote, httpOk)
        fv == imports[i].fileVersionID
    IN IF c.err THEN [mapping |-> arca_speckle_mapping, run |-> imports[i]]
       ELSE IF c.status = "ready"
       THEN [mapping |-> Silently(dbOk, SetReady(arca_speckle_mapping, fv, c.objectID)),
             run |-> [imports[i] EXCEPT !.pc = "done"]]
       ELSE IF c.status = "error"
       THEN [mapping |-> Silently(dbOk, updateMappingError(arca_speckle_mapping, fv,
                                                            "speckle import failed")),
             run |-> [imports[i] EXCEPT !.pc = "done"]]
       ELSE [mapping |-> arca_speckle_mapping, run |-> imports[i]]

PollTick ==
    \E i \in 1..Len(imports), httpOk \in BOOLEAN, dbOk \in BOOLEAN :
        /\ imports[i].pc = "poll"
        /\ arca_speckle_mapping' = Polled(i, httpOk, dbOk).mapping
        /\ imports' = [imports EXCEPT ![i] = Polled(i, httpOk, dbOk).run]
        /\ BridgeFrame

\* the remote side ends the import of a model, one way or the other
RemoteJob ==
    \E i \in 1..Len(imports), outcome \in RemoteStates \ {"running"} :
        /\ imports[i].pc \in {"update", "poll"}
        /\ imports[i].remote = "running"
        /\ imports' = [imports EXCEPT ![i].remote = outcome]
        /\ UNCHANGED arca_speckle_mapping
        /\ BridgeFrame

\* pollImportStatus, the 10 minute timeout: the loop returns (pc "expired")
\* after updateMappingError, whose Exec error nobody looks at
PollTimeout ==
    \E i \in 1..Len(imports), dbOk \in BOOLEAN :
        /\ imports[i].pc = "poll"
        /\ arca_speckle_mapping' = Silently(dbOk,
              updateMappingError(arca_speckle_mapping, imports[i].fileVersionID,
                                 "import timed out"))
        /\ SetImport(i, "expired", NoError)
        /\ BridgeFrame

NextBridge ==
    \/ CreateMapping
    \/ CreateModel
    \/ StartProcessing
    \/ PollTick
    \/ PollTimeout
    \/ RemoteJob

\* registrations feeding the bridge: one completed upload at a time, by the
\* completion hook or by a direct call
NotifyForImport == NotifyNew(MaxImports)

CallForImport == CallWhere(MaxImports)

NextServer ==
    \/ NotifyForImport
    \/ CallForImport
    \/ ReceiveCompleted
    \/ TxBegin
    \/ InsertFile
    \/ InsertFileVersion
    \/ LinkFolder
    \/ TxCommit
    \/ TriggerBridge
    \/ NextBridge

SpecBridge == Init /\ [][NextServer]_vars

\* a bridge run that still has statements to execute
InFlight(run) == run.pc \notin {"done", "expired", "abandoned"}

\* the process ends: a registrar run that had not committed loses its
\* transaction, one that had committed ends before the bridge is triggered
Interrupted(h) ==
    IF h.pc = "done" THEN h
    ELSE IF h.pc = "trigger" THEN [h EXCEPT !.pc = "done"]
    ELSE Fail(h, "shutdown")

\* the process ends: the goroutine of a bridge run is gone with it
Abandoned(run) == IF InFlight(run) THEN [run EXCEPT !.pc = "abandoned"] ELSE run

\* the process ends while runs are in flight and a new process starts: main
\* builds the handler, whose NewHandler starts processCompletedUploads on an
\* empty channel and nothing else. The tables and the remote jobs stay.
Restart ==
    /\ \/ \E i \in 1..Len(imports) : InFlight(imports[i])
       \/ \E g \in 1..Len(hooks) : hooks[g].pc # "done"
    /\ imports' = [i \in 1..Len(imports) |-> Abandoned(imports[i])]
    /\ hooks' = [g \in 1..Len(hooks) |-> Interrupted(hooks[g])]
    /\ CompleteUploads' = <<>>
    /\ UNCHANGED <<queueVars, endpointVars, completions, events, objects,
                   catalogVars, nextUuid, arca_speckle_mapping>>

NextRestart ==
    \/ NextServer
    \/ Restart

SpecRestart == Init /\ [][NextRestart]_vars

\* the same logical file is uploaded again: its completion is signalled after
\* the registrar runs of the earlier uploads have returned, with the same
\* Upload-Metadata; the bridge runs of the earlier versions may still go on
NotifyReupload ==
    /\ CompleteUploads = <<>>
    /\ \A g \in 1..Len(hooks) : hooks[g].pc = "done"
    /\ NotifyNew(MaxReuploads)
    /\ \A u, v \in DOMAIN events' : events'[u].MetaData = events'[v].MetaData

NextReupload ==
    \/ NotifyReupload
    \/ ReceiveCompleted
    \/ TxBegin
    \/ InsertFile
    \/ InsertFileVersion
    \/ LinkFolder
    \/ TxCommit
    \/ TriggerBridge
    \/ NextBridge

SpecReupload == Init /\ [][NextReupload]_vars

\* uploads of files with every kind of extension: ifc in upper case, ifczip,
\* another extension, and no extension (ext then comes from the metadata)
ExtNames ==
    {[stem |-> "model", dot |-> "IFC"], [stem |-> "model", dot |-> "ifczip"],
     [stem |-> "plan", dot |-> "dwg"], [stem |-> "notes", dot |-> ""]}

ExtMetaDatas ==
    [filename : ExtNames, ext : MetaExts, folderId : {"f1"}, creatorId : CreatorIds]

NotifyForExt == NotifyWith(MaxImports, ExtMetaDatas)

CallForExt == CallWith(MaxImports, ExtMetaDatas)

NextEligible ==
    \/ NotifyForExt
    \/ CallForExt
    \/ ReceiveCompleted
    \/ TxBegin
    \/ InsertFile
    \/ InsertFileVersion
    \/ LinkFolder
    \/ TxCommit
    \/ TriggerBridge
    \/ NextBridge

SpecEligible == Init /\ [][NextEligible]_vars

\* ------------------------------------------------------------------ claims
Uploading == {i \in 1..Len(files) : files[i].status = "uploading"}

\* C1: in every reachable state of the Queue Manager (any interleaving of
\* addFiles, pause, resume, retry, remove, cancelAll and the success/error
\* callbacks) at most MAX_PARALLEL_UPLOADS items have status 'uploading'.
C1_CeilingRespected == Cardinality(Uploading) <= MAX_PARALLEL_UPLOADS

\* C2: every PATCH whose declared offset differs from the session's durable
\* offset is answered 409 and leaves the durable offset where it was.
C2_StaleOffsetRejected ==
    \A r \in responses :
        (r.id \in DOMAIN upload_state /\ r.len > 0 /\ r.declared # r.durable)
            => /\ r.code = 409
               /\ DurableOffset(r.id) = r.durable

\* C3: in a contiguous sequence of sends starting at 0 every send returns the
\* previous offset plus the chunk's length, and once the chunks sum to the
\* declared length the durable offset equals that length.
C3_ContiguousSendsAdvance ==
    /\ \A r \in responses :
           (/\ r.id \in DOMAIN upload_state
            /\ r.code = 204
            /\ r.len > 0
            /\ r.declared = r.contig) => r.offset = r.declared + r.len
    /\ \A id \in DOMAIN upload_state :
           (sent[id] = upload_state[id].total_size /\ sent[id] > 0)
               => DurableOffset(id) = upload_state[id].total_size

\* C4: across create / send-chunk / query-offset the offset of a session never
\* decreases and never exceeds the declared length, and the session is
\* terminal exactly when its offset equals its declared length.
C4_OffsetMonotoneBounded ==
    [][\A id \in DOMAIN upload_state' :
          /\ reported'[id] <= upload_state'[id].total_size
          /\ id \in DOMAIN upload_state => reported'[id] >= reported[id]
          /\ (upload_state'[id].status # "uploading")
                <=> (upload_state'[id].uploaded_size = upload_state'[id].total_size)
      ]_vars

\* C6: a session gets a completion event exactly when its chunks have reached
\* the declared length: one event once all bytes were accepted, none before.
C6_CompletionExactlyOnce ==
    \A id \in DOMAIN upload_state :
        /\ (sent[id] = upload_state[id].total_size) => completions[id] = 1
        /\ (sent[id] # upload_state[id].total_size) => completions[id] = 0

\* C10: of two PATCH requests for one session that are in flight together
\* with the same declared offset, at most one is accepted.
C10_ConcurrentSendsOneAccepted ==
    \A r1, r2 \in responses :
        (/\ r1.rid # r2.rid
         /\ r1.id = r2.id
         /\ r1.id \in DOMAIN upload_state
         /\ r1.len > 0 /\ r2.len > 0
         /\ r1.declared = r2.declared
         /\ (r1.rid \in r2.overlap \/ r2.rid \in r1.overlap))
            => ~(r1.code = 204 /\ r2.code = 204)

RECURSIVE SumLen(_)
SumLen(S) ==
    IF S = {} THEN 0
    ELSE LET r == CHOOSE x \in S : TRUE IN r.len + SumLen(S \ {r})

Accepted(url) == {r \in responses : r.id = url /\ r.code = 204}
Earlier(r) == {o \in Accepted(r.id) : o.rid < r.rid}
LastBefore(r) == CHOOSE o \in Earlier(r) : \A x \in Earlier(r) : x.rid <= o.rid

\* C8: every chunk a transfer sends, also the first one after pause and
\* resume, starts at the offset the endpoint acknowledged last for that
\* session, and at completion the bytes accepted for the session are the
\* file's bytes, each exactly once and in order.
C8_ResumeFromAcknowledgedOffset ==
    /\ \A r \in responses :
          r.declared = (IF Earlier(r) = {} THEN 0 ELSE LastBefore(r).offset)
    /\ \A i \in 1..Len(files) :
          files[i].status = "complete"
              => /\ files[i].tusUrl # NoUrl
                 /\ sent[files[i].tusUrl] = files[i].size
                 /\ SumLen(Accepted(files[i].tusUrl)) = files[i].size

HasFile(h) == \E row \in arca_file : row.id = h.fileID
HasVersion(h) ==
    \E row \in arca_file_version : row.id = h.fileVersionID /\ row.file_id = h.fileID
HasLink(h) == \E row \in arca_folder_file : row.file_id = h.fileID

\* the File rows registered for upload u
FilesOf(u) ==
    {row \in arca_file :
        \E g \in 1..Len(hooks) : hooks[g].upload = u /\ hooks[g].fileID = row.id}

\* C5: there is never more than one CatalogEntry (File row with its
\* FileVersion) for one completed session, however often its completion
\* event is delivered.
C5_OneCatalogEntryPerSession ==
    \A u \in DOMAIN events : Cardinality(FilesOf(u)) <= 1

\* C7: the registrar's transaction is all-or-nothing. At every moment the
\* rows of one run are all in the catalog (File, FileVersion and, for a
\* destination other than the root, the folder link) or none is; a run that
\* ended after a failed insert (the folder link included) or a failed commit
\* left none, a run that ended without error left all, and the landed object
\* is still in storage.
C7_RegistrationAtomic ==
    \A g \in 1..Len(hooks) :
        LET h == hooks[g] IN
        /\ HasFile(h) <=> HasVersion(h)
        /\ HasFile(h) => (WantsLink(h) <=> HasLink(h))
        /\ HasLink(h) => HasFile(h)
        /\ (h.pc = "done" /\ (h.err # NoError \/ h.linkFailed))
              => ~HasFile(h) /\ ~HasVersion(h) /\ ~HasLink(h)
        /\ (h.pc = "done" /\ h.err = NoError) => HasFile(h)
        /\ h.upload \in objects

\* a run of onUploadComplete whose folder-link insert failed has ended, and
\* another run has committed a File with its folder link
C7_Witness ==
    /\ \E g \in 1..Len(hooks) :
          hooks[g].path = "hook" /\ hooks[g].pc = "done" /\ hooks[g].linkFailed
    /\ \E g \in 1..Len(hooks) :
          hooks[g].pc = "done" /\ HasFile(hooks[g]) /\ HasLink(hooks[g])

AllowedTransitions ==
    {<<"pending", "processing">>, <<"pending", "error">>,
     <<"processing", "ready">>, <<"processing", "error">>}

\* C9: every change of a mapping's status is one of pending->processing,
\* pending->error, processing->ready, processing->error; a mapping that is
\* ready or error keeps its status.
C9_MappingTransitions ==
    [][\A fv \in DOMAIN arca_speckle_mapping :
          LET old == arca_speckle_mapping[fv].status
              new == arca_speckle_mapping'[fv].status
          IN old # new => <<old, new>> \in AllowedTransitions
      ]_vars

\* the session of answer r had taken all its declared bytes when r was sent:
\* its durable offset, or the bytes accepted for it in order, had reached the
\* declared length
WasTerminal(r) ==
    /\ r.id \in DOMAIN upload_state
    /\ \/ r.durable = upload_state[r.id].total_size
       \/ r.contig = upload_state[r.id].total_size

\* C11: every send-chunk addressed to a terminal session is answered 410,
\* leaves the durable offset and the accepted bytes where they were, and
\* brings no second completion event.
C11_TerminalSessionClosed ==
    \A r \in responses :
        WasTerminal(r)
            => /\ r.code = 410
               /\ DurableOffset(r.id) = r.durable
               /\ completions[r.id] <= 1

\* C12: when the poll loop of an import has ended through its timeout, the
\* mapping has status error with the timeout message and the registered
\* FileVersion is still in the catalog (the ended loop takes no further step).
C12_TimeoutRecorded ==
    \A i \in 1..Len(imports) :
        imports[i].pc = "expired"
            => LET fv == imports[i].fileVersionID
               IN /\ fv \in DOMAIN arca_speckle_mapping
                  /\ arca_speckle_mapping[fv].status = "error"
                  /\ arca_speckle_mapping[fv].error_message = "import timed out"
                  /\ \E row \in arca_file_version : row.id = fv

\* the registrar run that started bridge run i
HookOf(i) ==
    CHOOSE g \in 1..Len(hooks) : hooks[g].fileVersionID = imports[i].fileVersionID

\* C13: a bridge run exists only for a registration that has committed and
\* whose registrar run has already returned without error, whatever step the
\* bridge run is at; and no step of a bridge run (job creation failing, the
\* remote side failing, the timeout) touches the catalog rows or the
\* registrar runs.
C13_BridgeDetached ==
    /\ [](\A i \in 1..Len(imports) :
            /\ \E g \in 1..Len(hooks) :
                  hooks[g].fileVersionID = imports[i].fileVersionID
            /\ hooks[HookOf(i)].pc = "done"
            /\ hooks[HookOf(i)].err = NoError
            /\ HasFile(hooks[HookOf(i)])
            /\ HasVersion(hooks[HookOf(i)]))
    /\ [][/\ arca_file \subseteq arca_file'
          /\ arca_file_version \subseteq arca_file_version'
          /\ arca_folder_file \subseteq arca_folder_file'
          /\ (Len(imports') = Len(imports) /\ imports' # imports)
                => UNCHANGED <<catalogVars, hooks>>
        ]_vars

\* a bridge run has ended in failure (job creation failed, the upload to the
\* remote side failed, or the poll loop timed out) and its registration is in
\* the catalog with the registrar run long returned
C13_Witness ==
    \E i \in 1..Len(imports) :
        /\ \/ imports[i].pc = "done" /\ imports[i].err # NoError
           \/ imports[i].pc = "expired"
        /\ hooks[HookOf(i)].pc = "done"
        /\ HasFile(hooks[HookOf(i)])
        /\ HasVersion(hooks[HookOf(i)])

\* the sessions created for a 12 MB file
Sessions12 == {id \in DOMAIN upload_state : upload_state[id].total_size = 12}

\* C14: a 12 MB file sent with 5 MB chunks takes exactly three accepted
\* sends, of 5, 5 and 2 MB at offsets 0, 5 and 10; when they have been
\* accepted the durable offset is 12, the item is complete, and there is one
\* CatalogEntry.
C14_TwelveMegabytesEndToEnd ==
    /\ \A r \in responses :
          (r.id \in Sessions12 /\ r.code = 204)
              => /\ Cardinality(Earlier(r)) < 3
                 /\ r.declared = CHUNK_SIZE * Cardinality(Earlier(r))
                 /\ r.len = Min(CHUNK_SIZE, 12 - r.declared)
    /\ \A id \in Sessions12 :
          SumLen(Accepted(id)) = 12
              => /\ DurableOffset(id) = 12
                 /\ \E i \in 1..Len(files) :
                       files[i].tusUrl = id /\ files[i].status = "complete"
                 /\ Cardinality(arca_file) = 1

\* the answers given to requests of one kind
AnswersTo(op) == {a \in answers : a.op = op}

\* C15: a HEAD for an existing session is answered with the session's
\* durable offset and its declared length, and answering it leaves the
\* session as it was.
C15_QueryReportsSession ==
    /\ [](\A a \in AnswersTo("HEAD") :
            a.stored => /\ a.code = 200
                        /\ a.offset = a.durable
                        /\ a.length = a.total)
    /\ [][(AnswersTo("HEAD")' # AnswersTo("HEAD")) => UNCHANGED upload_state]_vars

\* C16: after a DELETE was answered the session is gone, no PATCH answered
\* later is accepted, no completion event is emitted for it, and a repeated
\* DELETE is answered as the first was.
C16_CancelDiscardsSession ==
    \A a \in AnswersTo("DELETE") :
        /\ ~a.stored
        /\ a.id \notin DOMAIN upload_state
        /\ \A r \in responses :
              (r.id = a.id /\ r.rid \notin a.patched) => r.code # 204
        /\ completions[a.id] = 0
        /\ \A b \in AnswersTo("DELETE") : b.id = a.id => b.code = a.code

\* C17: every POST answered 201 with offset 0 has stored a session under the
\* identifier it returned, with the declared length and durable offset 0.
C17_CreateAllocatesSession ==
    \A a \in AnswersTo("POST") :
        (a.code = 201 /\ a.offset = 0)
            => /\ a.stored
               /\ a.total = a.declared
               /\ a.durable = 0
               /\ a.id \in DOMAIN upload_state

\* C18: an item is bound to one session for its whole life: no two uploads
\* were created for the same item, whatever was paused, resumed or retried.
C18_OneSessionPerItem ==
    \A p, q \in created : p[1] = q[1] => p[2] = q[2]

\* the session bound to an item (the upload created for it last), and the
\* offset the endpoint reported last for that session; 0 without a session
SessionsOf(fileId) == {p[2] : p \in {x \in created : x[1] = fileId}}
SessionOf(fileId) ==
    CHOOSE u \in SessionsOf(fileId) : \A v \in SessionsOf(fileId) : v <= u
SessionOffset(fileId) ==
    IF SessionsOf(fileId) = {} THEN 0 ELSE reported[SessionOf(fileId)]

\* C19: retry(id) on an item that is not failed changes nothing; on a failed
\* item it clears the error, re-queues the item (the scheduler may start it at
\* once) and sets bytes transferred and progress to the offset its session
\* reports.
C19_RetryOnlyFailed ==
    \A id \in Ids(files) :
        LET q == retryUpload(QState, id)
            f == q.files[IndexOf(q.files, id)]
        IN IF FileOf(id).status # "error"
           THEN q = QState
           ELSE /\ f.error = NoError
                /\ f.status \in {"queued", "uploading"}
                /\ f.bytesUploaded = SessionOffset(id)
                /\ f.progress = Percent(SessionOffset(id), f.bytesTotal)

\* the status item id has in queue state q ("" when it is no longer there)
StatusIn(q, id) ==
    IF id \in Ids(q.files) THEN q.files[IndexOf(q.files, id)].status ELSE ""

\* the ceiling allows a start once item id has given up its slot
CeilingAllowsAfter(id) ==
    Cardinality(Uploading \ {IndexOf(files, id)}) < MAX_PARALLEL_UPLOADS

\* C20: when a transferring item is paused, removed, completes or fails while
\* an item is queued and the ceiling allows a start, the first queued item is
\* transferring when that same call returns; and pausing an item leaves every
\* other transferring item as it was.
C20_FreedSlotPromotes ==
    \A id \in Ids(files) :
        (FileOf(id).status = "uploading" /\ Running(id))
            => LET next == files[FirstQueued(files)].id
                   paused == pauseUpload(QState, id)
               IN /\ (FirstQueued(files) # 0 /\ CeilingAllowsAfter(id))
                       => /\ StatusIn(paused, next) = "uploading"
                          /\ StatusIn(removeUpload(QState, id), next) = "uploading"
                          /\ StatusIn(onSuccess(QState, id), next) = "uploading"
                          /\ StatusIn(onError(QState, id, "failed"), next) = "uploading"
                  /\ \A j \in Uploading :
                        j # IndexOf(files, id) => paused.files[j] = files[j]

\* the first item was paused while a fourth was queued, and the fourth is
\* transferring in its place
C20_Witness ==
    /\ Len(files) = 4
    /\ files[1].status = "paused"
    /\ files[4].status = "uploading"
    /\ activeUploads = MAX_PARALLEL_UPLOADS
    /\ \E id \in Ids(files) :
          /\ FileOf(id).status = "uploading" /\ Running(id)
          /\ CeilingAllowsAfter(id)

\* bridge run i has called createSpeckleModel and got no remote job: the call
\* returned an error, or it returned no identifier
JobCreationFailed(i) ==
    /\ imports[i].pc \notin {"insert", "create"}
    /\ imports[i].err # "create mapping"
    /\ imports[i].modelID = NoModel

\* C21: a bridge run first creates the mapping in status pending; when
\* creating the remote job has failed the mapping is in status error with the
\* failure message, it is not in processing, and no poll loop runs for it.
C21_JobCreationFailure ==
    \A i \in 1..Len(imports) :
        LET fv == imports[i].fileVersionID IN
        /\ (imports[i].pc = "create")
              => /\ fv \in DOMAIN arca_speckle_mapping
                 /\ arca_speckle_mapping[fv].status = "pending"
        /\ JobCreationFailed(i)
              => /\ arca_speckle_mapping[fv].status = "error"
                 /\ arca_speckle_mapping[fv].error_message # NoError
                 /\ imports[i].pc \notin {"poll", "expired"}

\* C22: for a mapping that is processing, a poll (one whose request and
\* whose statement go through) after the job has ended in failure puts the
\* mapping in error and ends the loop, and one after it has ended in success
\* records the result reference, puts the mapping in ready and ends the loop.
C22_PollFollowsRemote ==
    \A i \in 1..Len(imports) :
        LET fv == imports[i].fileVersionID
            after == Polled(i, TRUE, TRUE)
        IN (/\ imports[i].pc = "poll"
            /\ arca_speckle_mapping[fv].status = "processing")
              => /\ imports[i].remote = "failed"
                    => /\ after.mapping[fv].status = "error"
                       /\ after.run.pc # "poll"
                 /\ imports[i].remote = "succeeded"
                    => /\ after.mapping[fv].status = "ready"
                       /\ after.mapping[fv].speckle_object_id # NoObject
                       /\ after.run.pc # "poll"

\* C23: a mapping left in processing by a process that shut down is polled
\* again by the process that follows, for the remote job it already has: after
\* a restart every processing mapping whose run was abandoned has a run
\* polling it with the same model id.
C23_PollingResumesAfterRestart ==
    \A i \in 1..Len(imports) :
        LET fv == imports[i].fileVersionID IN
        (/\ imports[i].pc = "abandoned"
         /\ fv \in DOMAIN arca_speckle_mapping
         /\ arca_speckle_mapping[fv].status = "processing")
            => \E j \in 1..Len(imports) :
                   /\ imports[j].fileVersionID = fv
                   /\ imports[j].pc = "poll"
                   /\ imports[j].modelID = imports[i].modelID

\* C24: every upload of the same logical file gets a file-version identifier
\* of its own and a mapping keyed by it; the step that creates a mapping
\* leaves every mapping that exists as it is, and no step of the bridge puts
\* an existing mapping back to pending.
C24_ReuploadIndependent ==
    /\ [](\A i, j \in 1..Len(imports) :
             i # j => imports[i].fileVersionID # imports[j].fileVersionID)
    /\ [][/\ (DOMAIN arca_speckle_mapping' # DOMAIN arca_speckle_mapping)
               => \A fv \in DOMAIN arca_speckle_mapping :
                      /\ fv \in DOMAIN arca_speckle_mapping'
                      /\ arca_speckle_mapping'[fv] = arca_speckle_mapping[fv]
          /\ \A fv \in DOMAIN arca_speckle_mapping :
                 arca_speckle_mapping'[fv].status = "pending"
                     => arca_speckle_mapping[fv].status = "pending"
         ]_vars

\* the file was uploaded twice: its second version has a mapping of its own
\* while the mapping of the first version has gone on to another status
C24_Witness ==
    \E i, j \in 1..Len(imports) :
        LET a == imports[i].fileVersionID
            b == imports[j].fileVersionID
        IN /\ i < j
           /\ hooks[HookOf(i)].name = hooks[HookOf(j)].name
           /\ a \in DOMAIN arca_speckle_mapping
           /\ b \in DOMAIN arca_speckle_mapping
           /\ arca_speckle_mapping[a].status \in {"processing", "ready", "error"}
           /\ arca_speckle_mapping[b].status = "pending"

\* the mappings of file-version v
MappingsOf(v) == {fv \in DOMAIN arca_speckle_mapping : fv = v.id}

\* the bridge invocations that got as far as creating a mapping for key fv
Invocations(fv) ==
    {i \in 1..Len(imports) :
        /\ imports[i].fileVersionID = fv
        /\ imports[i].pc # "insert"
        /\ imports[i].err # "create mapping"}

\* C25: a CatalogEntry never has more than one ConversionMapping: every
\* mapping belongs to one registered file-version and was created by one
\* bridge invocation, a file-version has at most one mapping, and so has the
\* File it belongs to.
C25_OneMappingPerEntry ==
    /\ \A fv \in DOMAIN arca_speckle_mapping :
          /\ Cardinality({v \in arca_file_version : v.id = fv}) = 1
          /\ Cardinality(Invocations(fv)) = 1
    /\ \A v \in arca_file_version : Cardinality(MappingsOf(v)) <= 1
    /\ \A f \in arca_file :
          Cardinality(UNION {MappingsOf(v) :
                               v \in {w \in arca_file_version : w.file_id = f.id}}) <= 1

\* two uploads were registered and each of the two file-versions has its
\* mapping, the bridge run of one of them still going on
C25_Witness ==
    /\ Cardinality(arca_file_version) = 2
    /\ \A v \in arca_file_version : Cardinality(MappingsOf(v)) = 1
    /\ \E i \in 1..Len(imports) : imports[i].pc = "poll"

\* C26: the POST that creates the upload of an item declares the item's size
\* as Upload-Length and carries metadata with filename, extension,
\* destination folder and the uploader's identity, so that the creator the
\* registrar takes from the metadata is never empty.
C26_CreateCarriesUploader ==
    \A id \in DOMAIN tusInstances :
        LET url == tusInstances[id].url
            metadata == UploadMetadata(FileOf(id))
        IN url # NoUrl
              => /\ url \in DOMAIN upload_state
                      => upload_state[url].total_size = FileOf(id).size
                 /\ Lookup(metadata, "filename") # ""
                 /\ Lookup(metadata, "ext") # ""
                 /\ Lookup(metadata, "folderId") # ""
                 /\ CreatorOf(metadata) # ""

\* C27: a registrar run that ended without error has inserted the File, its
\* FileVersion and, exactly when the metadata names a folder other than the
\* root (folderId neither "" nor "root"), the folder link; no link row names
\* the root or an empty folder; onUploadComplete and OnUploadComplete agree.
C27_LinkIffFolderNamed ==
    /\ \A g \in 1..Len(hooks) :
          LET h == hooks[g] IN
          (h.pc = "done" /\ h.err = NoError)
              => /\ HasFile(h) /\ HasVersion(h)
                 /\ HasLink(h) <=> h.folderId \notin {"", "root"}
                 /\ \A row \in arca_folder_file :
                        row.file_id = h.fileID => row.folder_id = h.folderId
    /\ \A row \in arca_folder_file : row.folder_id \notin {"", "root"}

\* the event path registered a file without folderId and has no link for it,
\* the direct path registered a file for folder f1 with its link
C27_Witness ==
    /\ \E g \in 1..Len(hooks) :
          /\ hooks[g].path = "hook" /\ hooks[g].folderId = ""
          /\ hooks[g].pc = "done" /\ hooks[g].err = NoError
          /\ HasFile(hooks[g]) /\ ~HasLink(hooks[g])
    /\ \E g \in 1..Len(hooks) :
          /\ hooks[g].path = "direct" /\ hooks[g].folderId = "f1"
          /\ hooks[g].pc = "done" /\ hooks[g].err = NoError
          /\ HasLink(hooks[g])

\* the FileVersion rows of File f
VersionsOf(f) == {v \in arca_file_version : v.file_id = f.id}

\* the size of the completed upload a registrar run was started for
FinalSize(h) == IF h.path = "hook" THEN events[h.upload].Size ELSE h.size

C29_FailedItemKeepsState ==
    /\ [](\A i \in 1..Len(files) :
             /\ files[i].status = "error"
                   => /\ files[i].error # NoError
                      /\ files[i].bytesUploaded <= files[i].bytesTotal
                      /\ files[i].bytesTotal = files[i].size
             /\ files[i].status # "error" => files[i].error = NoError)
    /\ [][\A id \in Ids(files) \cap Ids(files') :
             LET before == files[IndexOf(files, id)]
                 after == files'[IndexOf(files', id)]
             IN (before.status # "error" /\ after.status = "error")
                   => /\ after.bytesUploaded = before.bytesUploaded
                      /\ after.bytesTotal = before.bytesTotal
         ]_vars

\* an item that had failed and was retried has failed again in its second
\* session, after the first chunk of a larger file was acknowledged, and
\* holds the 5 MB it had transferred
C29_Witness ==
    \E i \in 1..Len(files) :
        /\ files[i].status = "error"
        /\ files[i].bytesUploaded = CHUNK_SIZE
        /\ files[i].size > CHUNK_SIZE
        /\ Cardinality(SessionsOf(files[i].id)) = 2

\* C30: a mapping in status processing or ready has a model id recorded, a
\* mapping in status ready has the referenced object recorded too, and a
\* mapping does not become processing for a run whose createSpeckleModel
\* returned no id.
C30_RemoteIdsRecorded ==
    /\ [](\A fv \in DOMAIN arca_speckle_mapping :
             LET m == arca_speckle_mapping[fv] IN
             /\ m.status \in {"processing", "ready"} => m.speckle_model_id # NoModel
             /\ m.status = "ready" => m.speckle_object_id # NoObject)
    /\ [][\A fv \in DOMAIN arca_speckle_mapping :
             (/\ arca_speckle_mapping[fv].status # "processing"
              /\ arca_speckle_mapping'[fv].status = "processing")
                => \E j \in 1..Len(imports) :
                       /\ imports[j].fileVersionID = fv
                       /\ imports[j].modelID # NoModel
         ]_vars

\* C31: every item in status 'uploading' has its one tus.Upload in
\* tusInstances, started and not aborted; a tus.Upload is in the map only for
\* an item of the batch that is 'uploading' or 'paused', and it is aborted
\* exactly when the item is paused; queued, complete, failed and removed items
\* have none.
C31_InstancePerTransfer ==
    /\ \A i \in 1..Len(files) :
          files[i].status = "uploading"
              => /\ files[i].id \in DOMAIN tusInstances
                 /\ ~tusInstances[files[i].id].aborted
    /\ \A id \in DOMAIN tusInstances :
          /\ id \in Ids(files)
          /\ FileOf(id).status \in {"uploading", "paused"}
          /\ tusInstances[id].aborted <=> FileOf(id).status = "paused"
    /\ \A i, j \in 1..Len(files) : files[i].id = files[j].id => i = j

\* one item is transferring and one is paused, each with its instance, and
\* a completed and a failed item have none
C31_Witness ==
    /\ \E i \in 1..Len(files) :
          files[i].status = "uploading" /\ files[i].id \in DOMAIN tusInstances
    /\ \E i \in 1..Len(files) :
          files[i].status = "paused" /\ files[i].id \in DOMAIN tusInstances
    /\ \E i \in 1..Len(files) :
          files[i].status = "complete" /\ files[i].id \notin DOMAIN tusInstances
    /\ \E i \in 1..Len(files) :
          files[i].status = "error" /\ files[i].id \notin DOMAIN tusInstances

\* C32: whenever batchState is read, the speed it reports is computed from
\* samples of the last 5 seconds only and is not negative, eta is the
\* remaining bytes divided by that speed, and eta is 0 (unavailable) when the
\* speed is zero or fewer than two samples are in the window, also after an
\* item was removed or retried.
C32_ThroughputEstimate ==
    LET state == batchState(QState, speedSamples, now)
        w == InWindow(speedSamples, now)
    IN /\ \A k \in 1..Len(w) : now - w[k].time < SPEED_WINDOW
       /\ state.speed.num >= 0
       /\ state.speed.den > 0
       /\ (Len(w) < 2 \/ state.speed.num = 0) => state.eta = 0
       /\ state.speed.num > 0
             => state.eta = ((state.totalSize - state.uploadedSize) * state.speed.den)
                                \div state.speed.num

\* C33: after any sequence of Queue Manager calls and callbacks, pause on a
\* paused item and resume on a transferring item included, activeUploads is
\* the number of items in status 'uploading', and so never negative.
C33_CounterMatchesTransfers ==
    /\ activeUploads = Cardinality(Uploading)
    /\ activeUploads >= 0

\* C34: every paused item still has its tus.Upload, so that resumeUpload
\* puts it back to 'uploading'; this holds after cancelAll too, and resume is
\* never a no-op on a paused item.
C34_PausedIsResumable ==
    \A i \in 1..Len(files) :
        files[i].status = "paused"
            => /\ files[i].id \in DOMAIN tusInstances
               /\ resumeUpload(QState, files[i].id).files[i].status = "uploading"

\* C35: a complete item stays as it is (status, progress, bytes transferred)
\* under every call and callback and leaves the batch only by removeUpload or
\* clearCompleted; clearCompleted takes out exactly the complete items and
\* changes neither activeUploads, nor the instances, nor any other item.
C35_CompleteIsTerminal ==
    /\ [](LET q == clearCompleted(QState) IN
          /\ Ids(q.files) = {files[i].id : i \in {j \in 1..Len(files) :
                                                     files[j].status # "complete"}}
          /\ \A id \in Ids(q.files) : q.files[IndexOf(q.files, id)] = FileOf(id)
          /\ q.activeUploads = activeUploads
          /\ q.tusInstances = tusInstances)
    /\ [][\A id \in Ids(files) :
             FileOf(id).status = "complete"
                 => IF id \in Ids(files')
                    THEN files'[IndexOf(files', id)] = FileOf(id)
                    ELSE \/ files' = removeUpload(QState, id).files
                         \/ files' = clearCompleted(QState).files
         ]_vars

\* an item is complete and another item was paused by cancelAll after that
C35_Witness ==
    /\ \E i \in 1..Len(files) : files[i].status = "complete" /\ files[i].progress = 100
    /\ \E i \in 1..Len(files) :
          files[i].status = "paused" /\ files[i].id \notin DOMAIN tusInstances

\* C36: the scheduler starts queued items in the order of the batch list: in
\* no step does an item go from queued (or newly added, or re-queued by a
\* retry) to 'uploading' while an item before it in the list is left queued.
C36_PromotionInListOrder ==
    [][\A k \in 1..Len(files') :
          LET id == files'[k].id IN
          (/\ files'[k].status = "uploading"
           /\ \/ id \notin Ids(files)
              \/ FileOf(id).status \in {"queued", "error"})
              => \A i \in 1..(k - 1) : files'[i].status # "queued"
      ]_vars

\* more files than slots were added at once: the first three are
\* transferring and the fourth waits
C36_Witness ==
    /\ Len(files) > MAX_PARALLEL_UPLOADS
    /\ \A i \in 1..MAX_PARALLEL_UPLOADS : files[i].status = "uploading"
    /\ files[MAX_PARALLEL_UPLOADS + 1].status = "queued"

Transferring(id) == id \in Ids(files) /\ FileOf(id).status = "uploading"
Waiting(id) == id \in Ids(files) /\ FileOf(id).status = "queued"

\* C37: without cancelAll, if every transferring item eventually completes,
\* fails, or is paused or removed, then every queued item eventually is no
\* longer queued (it is transferring, or was removed); and in every state a
\* queued item exists only while at least MAX_PARALLEL_UPLOADS items are
\* transferring.
C37_NoStarvation ==
    /\ []((\E i \in 1..Len(files) : files[i].status = "queued")
             => Cardinality(Uploading) >= MAX_PARALLEL_UPLOADS)
    /\ (\A id \in 1..MaxBatch : []<>~Transferring(id))
          => (\A id \in 1..MaxBatch : []<>~Waiting(id))

\* the registrar run of file-version fv has committed and its extension is
\* ifc or ifczip in any case
Eligible(fv) ==
    \E g \in 1..Len(hooks) :
        /\ hooks[g].fileVersionID = fv
        /\ hooks[g].err = NoError
        /\ hooks[g].pc = "done"
        /\ HasFile(hooks[g]) /\ HasVersion(hooks[g])
        /\ hooks[g].ext \in {"ifc", "IFC", "ifczip", "IFCZIP"}

\* C38: a mapping, and a bridge run with its remote job, exists only for a
\* file-version whose registration committed and whose extension is ifc or
\* ifczip in any case; a failed registration and a file of another extension
\* have neither.
C38_MappingOnlyIfEligible ==
    /\ \A fv \in DOMAIN arca_speckle_mapping : Eligible(fv)
    /\ \A i \in 1..Len(imports) : Eligible(imports[i].fileVersionID)
    /\ \A g \in 1..Len(hooks) :
          (hooks[g].err # NoError \/ hooks[g].ext \in {"dwg", "txt"})
              => /\ hooks[g].fileVersionID \notin DOMAIN arca_speckle_mapping
                 /\ \A i \in 1..Len(imports) :
                        imports[i].fileVersionID # hooks[g].fileVersionID

\* the upload of model.IFC was registered and its version has a mapping with
\* a remote model
C38_Witness ==
    \E g \in 1..Len(hooks) :
        /\ hooks[g].ext = "IFC"
        /\ hooks[g].fileVersionID \in DOMAIN arca_speckle_mapping
        /\ arca_speckle_mapping[hooks[g].fileVersionID].speckle_model_id # NoModel

====
